---------------------------- MODULE Spec2Model ----------------------------
(***************************************************************************)
(* Model of the moment / information projection notebook                   *)
(* (src/Python/students_M_and_I_projections.ipynb).                        *)
(*                                                                         *)
(* Numbers.  Points on the x axis, loc and scale are fixed-point integers  *)
(* in hundredths (XS).  A density value is a float64 abstracted to         *)
(*   [k |-> "nan"], [k |-> "zero"] or [k |-> "pos", ln |-> l]              *)
(* where l is the natural logarithm of the value in thousandths (LS): the  *)
(* log domain keeps the dynamic range of float64 (values such as 3e-31     *)
(* stay positive, and exp underflows to zero below exp(-745.13)).  The     *)
(* Riemann sum is taken in the linear domain in ten-thousandths (LinS).    *)
(***************************************************************************)
EXTENDS Integers, Sequences, FiniteSets

VARIABLES
    pc,                    \* position in the cell "Do the work" (lines 263-271)
    proj,                  \* the generate_*_projection call that is active
    proj_eps,              \* its eps argument
    f, g, eps,             \* optimize_parameters' arguments (closure of the objective)
    parameters,            \* the vector the minimizer last handed to the objective
    x_val, fx, gx,         \* the objective's grid and f(x_val), g(x_val)
    answer,                \* the objective's last return value
    nfev,                  \* objective evaluations of the running minimize call
    evaluated,             \* the vectors evaluated by the running minimize call
    moment_estimate,       \* notebook globals bound by the cell
    information_estimate,
    calls,                 \* history: the minimize calls made so far and their outcomes
    probe,                 \* a direct call of a density evaluator and its result
    observed,              \* what the running minimize call has seen: <<vector, value>>s
    memo,                  \* minimize as a function: what it did after what it had seen
    runs,                  \* history: the optimize_parameters calls of repeated runs
    gibbs_pc,              \* position in the Gibbs sampler's loop (part_002, lines 210-212)
    loop_i,                \* the loop variable i of that loop
    x_samples, y_samples,  \* the sample arrays (part_002, lines 121, 131)
    last_x_idx, last_y_idx, \* indices of the most recent samples (part_002, lines 126, 136)
    gen_pc,                \* whether the two batch generators have been created
    array, batch_size,     \* data_generator's arguments (part_000, line 61)
    start,                 \* its pointer (line 63)
    batch,                 \* the batch it yielded last (line 73)
    picked,                \* the indices of array that batch was taken from
    nexts,                 \* the next() calls made on it
    vae_array,             \* generator's array argument (part_001, line 61)
    vae_start, vae_batch,  \* its pointer and the batch it yielded last
    vae_picked, vae_nexts, \* as picked and nexts
    ascent_pc,             \* position in the cells of part_000, lines 224-310
    do_natural_gradient,   \* line 229
    step,                  \* the loop variable of line 266, a global
    current_mu, current_tau,
    mu_list, tau_list,     \* the history lists of lines 244-247
    total_examples_seen, log_likelihoods,
    nat_grad, euc_grad,    \* what calculate_gradient returned last (line 269)
    gradient_N,            \* the N it was called with
    plots                  \* history: the generate_plot calls and the segments drawn

\* the state of the projection notebook
projection_vars ==
    <<pc, proj, proj_eps, f, g, eps, parameters, x_val, fx, gx, answer, nfev,
      evaluated, moment_estimate, information_estimate, calls, probe>>
\* the minimizer's record of repeated runs
rerun_vars == <<observed, memo, runs>>
\* the state of the Gibbs sampling notebook
gibbs_vars == <<gibbs_pc, loop_i, x_samples, y_samples, last_x_idx, last_y_idx>>

\* the two batch generators
generator_vars ==
    <<gen_pc, array, batch_size, start, batch, picked, nexts,
      vae_array, vae_start, vae_batch, vae_picked, vae_nexts>>
\* the rest of the gradient ascent notebook
ascent_vars ==
    <<ascent_pc, do_natural_gradient, step, current_mu, current_tau, mu_list,
      tau_list, total_examples_seen, log_likelihoods, nat_grad, euc_grad,
      gradient_N, plots>>

vars == <<projection_vars, rerun_vars, gibbs_vars, generator_vars, ascent_vars>>

\* what a run of the projection notebook's cells leaves alone
outside_projection == <<rerun_vars, gibbs_vars, generator_vars, ascent_vars>>
\* what a run of the Gibbs notebook leaves alone
outside_gibbs == <<projection_vars, rerun_vars, generator_vars, ascent_vars>>
\* what repeated runs of the projection cell leave alone
outside_rerun == <<gibbs_vars, generator_vars, ascent_vars>>
\* what the batch generators and the gradient ascent notebook leave alone
outside_ascent == <<projection_vars, rerun_vars, gibbs_vars>>

(***************************************************************************)
(* Fixed-point units.                                                      *)
(***************************************************************************)
XS == 10 * 10
LS == 10 * 10 * 10
LinS == 10 * 10 * 10 * 10

\* ln 2 and ln sqrt(2 pi) in thousandths
Ln2 == 693
LnSqrt2Pi == 919

(***************************************************************************)
(* float64 values of the model.                                            *)
(***************************************************************************)
NaN == [k |-> "nan", ln |-> 0]
Zero == [k |-> "zero", ln |-> 0]
\* np.exp rounds to 0.0 below exp(-745.13)
MinLn == -745133

Pos(l) == IF l < MinLn THEN Zero ELSE [k |-> "pos", ln |-> l]

IsPos(v) == v.k = "pos"

Max(a, b) == IF a >= b THEN a ELSE b

\* a * b / c without leaving 32 bits, for c > 0, 0 <= a and |b| * c < 2^31
MulDiv(a, b, c) == (a \div c) * b + ((a % c) * b) \div c

(***************************************************************************)
(* np.log and np.exp on fixed-point numbers.                               *)
(***************************************************************************)
\* ln(n / u) in thousandths for u <= n < 2u: 2 atanh((n - u) / (n + u))
LnSeries(n, u) ==
    LET T == ((n - u) * LinS) \div (n + u)
        T2 == (T * T) \div LinS
        T3 == (T2 * T) \div LinS
        T5 == (T3 * T2) \div LinS
    IN  (2 * (T + T3 \div 3 + T5 \div 5)) \div 10

RECURSIVE Ln(_, _)
\* ln(n / u) in thousandths, n > 0, u > 0
Ln(n, u) ==
    IF n >= 2 * u THEN Ln2 + Ln(n, 2 * u)
    ELSE IF n < u THEN Ln(2 * n, u) - Ln2
    ELSE LnSeries(n, u)

RECURSIVE Pow2(_)
Pow2(k) == IF k <= 0 THEN 1 ELSE 2 * Pow2(k - 1)

\* exp(l / LS) in ten-thousandths; below 5e-5 the linear value is 0
Exp(l) ==
    IF l < -10000 THEN 0
    ELSE LET k == l \div Ln2
             Y == (l % Ln2) * 10
             Y2 == (Y * Y) \div LinS
             Y3 == (Y2 * Y) \div LinS
             Y4 == (Y3 * Y) \div LinS
             E == LinS + Y + Y2 \div 2 + Y3 \div 6 + Y4 \div 24
         IN  IF k >= 0 THEN E * Pow2(k) ELSE E \div Pow2(-k)


(***************************************************************************)
(* float64 arithmetic on density values.                                   *)
(***************************************************************************)
\* c * v for a constant c > 0 given by its logarithm
Times(lnc, v) == IF IsPos(v) THEN Pos(v.ln + lnc) ELSE v

\* a + b for non-negative a, b: ln(a + b) = hi + ln(1 + exp(lo - hi))
Plus(a, b) ==
    IF a.k = "nan" \/ b.k = "nan" THEN NaN
    ELSE IF a.k = "zero" THEN b
    ELSE IF b.k = "zero" THEN a
    ELSE LET hi == Max(a.ln, b.ln)
             lo == IF a.ln >= b.ln THEN b.ln ELSE a.ln
         IN  Pos(hi + Ln(LinS + Exp(lo - hi), LinS))

\* np.maximum(c, v) for a constant c > 0 given by its logarithm: NaN propagates
Maximum(lnc, v) ==
    IF v.k = "nan" THEN NaN
    ELSE IF v.k = "zero" THEN Pos(lnc)
    ELSE Pos(Max(lnc, v.ln))

\* v >= c for a constant c > 0 given by its logarithm (False for NaN, as in IEEE 754)
AtLeast(v, lnc) == IsPos(v) /\ v.ln >= lnc

(***************************************************************************)
(* scipy.stats.norm.pdf(x, loc, scale) at one point:                       *)
(*    exp(-z^2 / 2) / sqrt(2 pi) / scale  with z = (x - loc) / scale,      *)
(* and nan where scale > 0 does not hold.                                  *)
(***************************************************************************)
NormPdf(x, loc, scale) ==
    IF scale <= 0 THEN NaN
    ELSE LET d2 == (x - loc) * (x - loc)
             s2 == 2 * scale * scale
         IN  IF d2 \div s2 > 746 THEN Zero
             ELSE LET half_z2 == MulDiv(d2, LS, s2)
                  IN  IF -half_z2 < MinLn THEN Zero
                      ELSE Pos(-half_z2 - LnSqrt2Pi - Ln(scale, XS))

(***************************************************************************)
(* **kwargs: a function from a subset of {"loc", "scale"} to numbers.      *)
(* kwargs.get(key) is None for a missing key.                              *)
(***************************************************************************)
None == [some |-> FALSE, v |-> 0]
Some(n) == [some |-> TRUE, v |-> n]
Get(kwargs, key) == IF key \in DOMAIN kwargs THEN Some(kwargs[key]) ELSE None

NoKwargs == [key \in {} |-> 0]
Kwargs(loc, scale) == [key \in {"loc", "scale"} |-> IF key = "loc" THEN loc ELSE scale]

(***************************************************************************)
(* The target distribution p: a mixture of two Gaussians (lines 47-56).    *)
(* w is in tenths; the means and standard deviations are in hundredths.    *)
(***************************************************************************)
w == 1
mean1 == 100
stddev1 == 50
mean2 == 1000
stddev2 == 300

\* variant: the first component takes a loc that is passed
p_point_reads_loc(x, kwargs) ==
    LET loc == Get(kwargs, "loc")
    IN  Plus(Times(Ln(w, 10), NormPdf(x, IF loc.some THEN loc.v ELSE mean1, stddev1)),
             Times(Ln(10 - w, 10), NormPdf(x, mean2, stddev2)))

\* p_distribution_pdf at one point; kwargs is accepted and not read
p_point(x, kwargs) ==
    Plus(Times(Ln(w, 10), NormPdf(x, mean1, stddev1)),
         Times(Ln(10 - w, 10), NormPdf(x, mean2, stddev2)))


p_distribution_pdf(x, kwargs) ==
    [k |-> "ok", v |-> [i \in 1..Len(x) |-> p_point(x[i], kwargs)], e |-> ""]

(***************************************************************************)
(* The approximation q: one Gaussian with loc and scale from kwargs        *)
(* (lines 98-103).  ln(1e-6) = -13.816.                                    *)
(***************************************************************************)
LnFloor == -13816

\* variant: the floor forgotten
q_point_unfloored(x, loc, scale) == NormPdf(x, loc, scale)
q_point(x, loc, scale) == Maximum(LnFloor, NormPdf(x, loc, scale))

\* norm.pdf subtracts loc from x and divides by scale: None raises TypeError
q_distribution_pdf(x, kwargs) ==
    LET loc == Get(kwargs, "loc")
        scale == Get(kwargs, "scale")
    IN  IF ~loc.some \/ ~scale.some
        THEN [k |-> "raise", v |-> <<>>, e |-> "TypeError"]
        ELSE [k |-> "ok", v |-> [i \in 1..Len(x) |-> q_point(x[i], loc.v, scale.v)],
              e |-> ""]

\* f(x, loc=..., scale=...) for f one of the two evaluators
Apply(fn, x, kwargs) ==
    IF fn = "p_distribution_pdf" THEN p_distribution_pdf(x, kwargs)
    ELSE q_distribution_pdf(x, kwargs)

(***************************************************************************)
(* Values of the linear domain (ten-thousandths): the terms of the sum,    *)
(* the sum and the objective's answer.  float64 has nan and +-inf.         *)
(***************************************************************************)
Fin(n) == [k |-> "fin", v |-> n]
LNaN == [k |-> "nan", v |-> 0]
LInf == [k |-> "inf", v |-> 0]
LNegInf == [k |-> "-inf", v |-> 0]
\* a float64 quotient overflows to inf above exp(709.78)
MaxLn == 709782

\* a + b in float64
Add(a, b) ==
    IF a.k = "nan" \/ b.k = "nan" THEN LNaN
    ELSE IF a.k = "fin" /\ b.k = "fin" THEN Fin(a.v + b.v)
    ELSE IF a.k = "fin" THEN b
    ELSE IF b.k = "fin" THEN a
    ELSE IF a.k = b.k THEN a
    ELSE LNaN

\* np.sum of a sequence of linear values (numpy adds pairwise)
RECURSIVE SumRange(_, _, _)
SumRange(s, lo, hi) ==
    IF lo > hi THEN Fin(0)
    ELSE IF lo = hi THEN s[lo]
    ELSE LET mid == (lo + hi) \div 2
         IN  Add(SumRange(s, lo, mid), SumRange(s, mid + 1, hi))

NpSum(s) == SumRange(s, 1, Len(s))

\* fv * np.log(fv / gv) at one grid point
KLTerm(fv, gv) ==
    IF fv.k = "nan" \/ gv.k = "nan" THEN LNaN
    ELSE IF fv.k = "zero" THEN LNaN                \* 0 * log(0 / g) and 0 / 0
    ELSE IF gv.k = "zero" THEN LInf                \* f * log(f / 0)
    ELSE LET dl == fv.ln - gv.ln
         IN  IF dl > MaxLn THEN LInf
             ELSE IF dl < MinLn THEN LNegInf
             ELSE Fin(MulDiv(Exp(fv.ln), dl, LS))

(***************************************************************************)
(* np.arange(start, stop, step) for step > 0.                              *)
(***************************************************************************)
Arange(first, limit, by) ==
    LET n == IF limit > first THEN (limit - first + by - 1) \div by ELSE 0
    IN  [i \in 1..n |-> first + (i - 1) * by]

\* the hardcoded area of integration [-25, +25] (line 163)
\* variant: the left end of the plot's range (line 287)
DomainLoOfPlot == -5 * XS
DomainLo == -2500
DomainHi == 2500

\* eps * s (line 166)
\* variant: the factor eps forgotten
TimesEpsNoEps(e, s) == s
TimesEps(e, s) == IF s.k = "fin" THEN Fin(MulDiv(s.v, e, XS)) ELSE s

(***************************************************************************)
(* calculate_KL_for_given_parameters (lines 140-167), with f, g and eps    *)
(* of the enclosing optimize_parameters call.  The blank of line 166 is    *)
(* the summand its docstring gives (lines 148-151).                        *)
(***************************************************************************)
\* variants: loc and scale mixed up in the call of g, or in the call of f;
\* the grid laid around the current mean
calculate_KL_g_kwargs_mixed(ff, gg, e, params) ==
    LET mu == params[1]
        sigma == params[2]
        xs == Arange(DomainLo, DomainHi, e)
        fv == Apply(ff, xs, Kwargs(mu, sigma)).v
        gv == Apply(gg, xs, Kwargs(sigma, mu)).v
    IN  [x_val |-> xs, fx |-> fv, gx |-> gv,
         answer |-> TimesEps(e, NpSum([i \in 1..Len(xs) |-> KLTerm(fv[i], gv[i])]))]
calculate_KL_f_kwargs_mixed(ff, gg, e, params) ==
    LET mu == params[1]
        sigma == params[2]
        xs == Arange(DomainLo, DomainHi, e)
        fv == Apply(ff, xs, Kwargs(sigma, mu)).v
        gv == Apply(gg, xs, Kwargs(mu, sigma)).v
    IN  [x_val |-> xs, fx |-> fv, gx |-> gv,
         answer |-> TimesEps(e, NpSum([i \in 1..Len(xs) |-> KLTerm(fv[i], gv[i])]))]
calculate_KL_grid_around_mean(ff, gg, e, params) ==
    LET mu == params[1]
        sigma == params[2]
        xs == Arange(mu + DomainLo, mu + DomainHi, e)
        fv == Apply(ff, xs, Kwargs(mu, sigma)).v
        gv == Apply(gg, xs, Kwargs(mu, sigma)).v
    IN  [x_val |-> xs, fx |-> fv, gx |-> gv,
         answer |-> TimesEps(e, NpSum([i \in 1..Len(xs) |-> KLTerm(fv[i], gv[i])]))]
calculate_KL_for_given_parameters(ff, gg, e, params) ==
    LET mu == params[1]
        sigma == params[2]
        xs == Arange(DomainLo, DomainHi, e)
        fv == Apply(ff, xs, Kwargs(mu, sigma)).v
        gv == Apply(gg, xs, Kwargs(mu, sigma)).v
    IN  [x_val |-> xs, fx |-> fv, gx |-> gv,
         answer |-> TimesEps(e, NpSum([i \in 1..Len(xs) |-> KLTerm(fv[i], gv[i])]))]

(***************************************************************************)
(* Bounds of the model.                                                    *)
(***************************************************************************)
\* objective evaluations one minimize call may make
MaxEvals == 3
\* length of the vectors handed to a density evaluator directly
MaxVec == 2

\* step sizes a caller passes as eps (the notebook's default 1e-2 is 1)
EpsSet == {500, 2000}
\* the (mean, scale) vectors the minimizer may try, before the bounds apply
MuSet == {0, 100, 1000}
SigmaSet == {-100, 0, 1, 300, 500}
\* points and keyword arguments of direct calls of the evaluators
PointSet == {-2500, 0, 100, 1000}
KwargsSet ==
    {NoKwargs, [key \in {"loc"} |-> 0], [key \in {"scale"} |-> 300]}
        \cup {Kwargs(l, sc) : l \in {0, 1000}, sc \in SigmaSet}

RECURSIVE SeqsUpTo(_, _)
\* the non-empty sequences over S of length at most n
SeqsUpTo(S, n) ==
    IF n = 0 THEN {}
    ELSE LET shorter == SeqsUpTo(S, n - 1)
         IN  {<<x>> : x \in S} \cup shorter
                 \cup {Append(t, x) : t \in shorter, x \in S}

(***************************************************************************)
(* The call of scipy's minimize in optimize_parameters (lines 180-182).    *)
(* minimize is a library: the model takes from its contract that it        *)
(* starts at x0 (clipped into the bounds), evaluates the objective only    *)
(* inside the bounds, and returns a result whose x is one of the vectors   *)
(* it evaluated together with a success flag, or raises.                   *)
(***************************************************************************)
\* bounds=((None, None), (1E-2, None)): no bound on the mean, scale >= 1e-2
NoBound == [some |-> FALSE, v |-> 0]
ScaleLowerBound == 1
\* variant: no bound on the scale either
boundsUnbounded == <<[lo |-> NoBound, hi |-> NoBound], [lo |-> NoBound, hi |-> NoBound]>>
bounds == <<[lo |-> NoBound, hi |-> NoBound],
            [lo |-> Some(ScaleLowerBound), hi |-> NoBound]>>

\* x0=[0, 5]
x0 == <<0, 500>>

InBounds(x) ==
    \A i \in 1..Len(x) :
        /\ bounds[i].lo.some => x[i] >= bounds[i].lo.v
        /\ bounds[i].hi.some => x[i] <= bounds[i].hi.v

Clip(x) ==
    [i \in 1..Len(x) |->
        IF bounds[i].lo.some /\ x[i] < bounds[i].lo.v THEN bounds[i].lo.v
        ELSE IF bounds[i].hi.some /\ x[i] > bounds[i].hi.v THEN bounds[i].hi.v
        ELSE x[i]]

\* the vectors minimize may hand to the objective at its n-th evaluation
MinimizerPoints(n) ==
    IF n = 0 THEN {Clip(x0)}
    ELSE {c \in {<<m, sd>> : m \in MuSet, sd \in SigmaSet} : InBounds(c)}

(***************************************************************************)
(* The two call sites (lines 202-216 and 232-247): the arguments each      *)
(* hands to optimize_parameters.  The f and g of lines 211-212 and 242-243 *)
(* are blanks in the notebook: the docstrings say which divergence each    *)
(* one minimizes (KL(p||q), KL(q||p)), and optimize_parameters computes    *)
(* KL(f||g).                                                               *)
(***************************************************************************)
\* eps=1E-2, the default of both
DefaultEps == 1

\* variant: the eps argument not handed on
generate_moment_projection_default_eps(e) ==
    [f |-> "p_distribution_pdf", g |-> "q_distribution_pdf", eps |-> DefaultEps]
generate_moment_projection(e) ==
    [f |-> "p_distribution_pdf", g |-> "q_distribution_pdf", eps |-> e]

\* variant: f and g as in the moment projection
generate_information_projection_copied(e) ==
    [f |-> "p_distribution_pdf", g |-> "q_distribution_pdf", eps |-> e]
generate_information_projection(e) ==
    [f |-> "q_distribution_pdf", g |-> "p_distribution_pdf", eps |-> e]

\* return optimum['x'] (line 186), handed on by "return result" (lines 216, 247)
\* variants: the start substituted on non-convergence; one component only
ReturnValueIfSuccess(opt) == IF opt.success THEN opt.x ELSE x0
ReturnValueFirstOnly(opt) == <<opt.x[1]>>
ReturnValue(opt) == opt.x

\* where the cell goes on after a projection returned (lines 264-271)
\* variant: the projection called again when minimize did not converge
AfterReturnRetry(which, opt) ==
    IF ~opt.success THEN (IF which = "moment" THEN "find_moment" ELSE "find_information")
    ELSE IF which = "moment" THEN "find_information" ELSE "done"
AfterReturn(which, opt) == IF which = "moment" THEN "find_information" ELSE "done"

(***************************************************************************)
(* State.                                                                  *)
(***************************************************************************)
Unbound == [bound |-> FALSE, v |-> <<>>]
Bound(v) == [bound |-> TRUE, v |-> v]
NoAnswer == [k |-> "none", v |-> 0]
NoProbe == [fn |-> "none", x |-> <<>>, kwargs |-> NoKwargs,
            out |-> [k |-> "none", v |-> <<>>, e |-> ""]]

Init ==
    /\ pc = "find_moment"
    /\ proj = "none"
    /\ proj_eps = 0
    /\ f = "none"
    /\ g = "none"
    /\ eps = 0
    /\ parameters = <<>>
    /\ x_val = <<>>
    /\ fx = <<>>
    /\ gx = <<>>
    /\ answer = NoAnswer
    /\ nfev = 0
    /\ evaluated = {}
    /\ moment_estimate = Unbound
    /\ information_estimate = Unbound
    /\ calls = <<>>
    /\ probe = NoProbe
    /\ observed = <<>>
    /\ memo = {}
    /\ runs = <<>>
    /\ gibbs_pc = "initialize"
    /\ loop_i = 0
    /\ x_samples = <<>>
    /\ y_samples = <<>>
    /\ last_x_idx = 0
    /\ last_y_idx = 0
    /\ gen_pc = "undefined"
    /\ array = <<>>
    /\ batch_size = 0
    /\ start = 0
    /\ batch = <<>>
    /\ picked = <<>>
    /\ nexts = 0
    /\ vae_array = <<>>
    /\ vae_start = 0
    /\ vae_batch = <<>>
    /\ vae_picked = <<>>
    /\ vae_nexts = 0
    /\ ascent_pc = "setup"
    /\ do_natural_gradient = FALSE
    /\ step = 0
    /\ current_mu = 0
    /\ current_tau = 0
    /\ mu_list = <<>>
    /\ tau_list = <<>>
    /\ total_examples_seen = <<>>
    /\ log_likelihoods = <<>>
    /\ nat_grad = <<>>
    /\ euc_grad = <<>>
    /\ gradient_N = 0
    /\ plots = <<>>

\* the last minimize call's entry of the history, closed with its outcome
Closed(outcome, x) ==
    [calls EXCEPT ![Len(calls)] = [proj |-> proj, outcome |-> outcome, x |-> x]]

\* entering optimize_parameters(f, g, eps) and, in it, minimize
EnterMinimize(which, args, e) ==
    /\ proj' = which
    /\ proj_eps' = e
    /\ f' = args.f
    /\ g' = args.g
    /\ eps' = args.eps
    /\ pc' = "minimize"
    /\ nfev' = 0
    /\ evaluated' = {}
    /\ calls' = Append(calls, [proj |-> which, outcome |-> "running", x |-> <<>>])
    /\ UNCHANGED <<parameters, x_val, fx, gx, answer, moment_estimate,
                   information_estimate, probe>>
    /\ UNCHANGED outside_projection

\* moment_estimate = generate_moment_projection(eps=e), up to the call of minimize
CallMoment(e) ==
    /\ pc = "find_moment"
    /\ EnterMinimize("moment", generate_moment_projection(e), e)

\* information_estimate = generate_information_projection(eps=e), likewise
CallInformation(e) ==
    /\ pc = "find_information"
    /\ EnterMinimize("information", generate_information_projection(e), e)

\* minimize calls the objective calculate_KL_for_given_parameters(x)
Evaluate(x) ==
    /\ pc = "minimize"
    /\ nfev < MaxEvals
    /\ x \in MinimizerPoints(nfev)
    /\ LET r == calculate_KL_for_given_parameters(f, g, eps, x)
       IN  /\ parameters' = x
           /\ x_val' = r.x_val
           /\ fx' = r.fx
           /\ gx' = r.gx
           /\ answer' = r.answer
    /\ nfev' = nfev + 1
    /\ evaluated' = evaluated \cup {x}
    /\ UNCHANGED <<pc, proj, proj_eps, f, g, eps, moment_estimate,
                   information_estimate, calls, probe>>
    /\ UNCHANGED outside_projection

\* the frames of optimize_parameters and of the objective are gone
DropLocals ==
    /\ proj' = "none"
    /\ proj_eps' = 0
    /\ f' = "none"
    /\ g' = "none"
    /\ eps' = 0
    /\ parameters' = <<>>
    /\ x_val' = <<>>
    /\ fx' = <<>>
    /\ gx' = <<>>
    /\ answer' = NoAnswer
    /\ nfev' = 0
    /\ evaluated' = {}

\* minimize returns optimum; optimize_parameters returns optimum['x'], the
\* projection returns it, and the cell binds and prints it
Return(x, success) ==
    /\ pc = "minimize"
    /\ nfev >= 1
    /\ x \in evaluated
    /\ LET optimum == [x |-> x, success |-> success]
       IN  /\ calls' = Closed(IF success THEN "converged" ELSE "not_converged", x)
           /\ IF proj = "moment"
              THEN /\ moment_estimate' = Bound(ReturnValue(optimum))
                   /\ UNCHANGED information_estimate
              ELSE /\ information_estimate' = Bound(ReturnValue(optimum))
                   /\ UNCHANGED moment_estimate
           /\ pc' = AfterReturn(proj, optimum)
    /\ DropLocals
    /\ UNCHANGED probe
    /\ UNCHANGED outside_projection

\* minimize raises: nothing catches it, the assignment of the cell does not
\* happen and the cell stops
RaiseInMinimize ==
    /\ pc = "minimize"
    /\ pc' = "raised"
    /\ calls' = Closed("raised", <<>>)
    /\ DropLocals
    /\ UNCHANGED <<moment_estimate, information_estimate, probe>>
    /\ UNCHANGED outside_projection

Next ==
    \/ \E e \in EpsSet : CallMoment(e)
    \/ \E e \in EpsSet : CallInformation(e)
    \/ \E m \in MuSet, sd \in SigmaSet : Evaluate(<<m, sd>>)
    \/ \E m \in MuSet, sd \in SigmaSet, ok \in BOOLEAN : Return(<<m, sd>>, ok)
    \/ RaiseInMinimize

Spec == Init /\ [][Next]_vars

(***************************************************************************)
(* One direct call of a density evaluator, as the plotting cells make them *)
(* (lines 77, 289-292), on any vector and any keyword arguments.           *)
(***************************************************************************)
ProbeP(x, kwargs) ==
    /\ probe = NoProbe
    /\ probe' = [fn |-> "p_distribution_pdf", x |-> x, kwargs |-> kwargs,
                 out |-> p_distribution_pdf(x, kwargs)]
    /\ UNCHANGED <<pc, proj, proj_eps, f, g, eps, parameters, x_val, fx, gx, answer,
                   nfev, evaluated, moment_estimate, information_estimate, calls>>
    /\ UNCHANGED outside_projection

ProbeQ(x, kwargs) ==
    /\ probe = NoProbe
    /\ probe' = [fn |-> "q_distribution_pdf", x |-> x, kwargs |-> kwargs,
                 out |-> q_distribution_pdf(x, kwargs)]
    /\ UNCHANGED <<pc, proj, proj_eps, f, g, eps, parameters, x_val, fx, gx, answer,
                   nfev, evaluated, moment_estimate, information_estimate, calls>>
    /\ UNCHANGED outside_projection

NextPdf ==
    \/ \E x \in SeqsUpTo(PointSet, MaxVec), kw \in KwargsSet : ProbeP(x, kw)
    \/ \E x \in SeqsUpTo(PointSet, MaxVec), kw \in KwargsSet : ProbeQ(x, kw)

SpecPdf == Init /\ [][NextPdf]_vars

(***************************************************************************)
(* The objective as a function: optimize_parameters(ff, gg, e) called with *)
(* any two of the evaluators and any step size, and its objective          *)
(* calculate_KL_for_given_parameters evaluated once, at a vector inside    *)
(* the bounds (the objective is local to optimize_parameters, line 140:    *)
(* minimize is its only caller).                                           *)
(***************************************************************************)
Evaluators == {"p_distribution_pdf", "q_distribution_pdf"}

\* step sizes from a quarter of stddev1 up to more than the width of the domain
StepSet == {25, 50, 100, 200, 400, 800, 1600, 2000, 6000}

CallObjective(ff, gg, e, x) ==
    /\ pc = "find_moment"
    /\ InBounds(x)
    /\ pc' = "minimize"
    /\ f' = ff
    /\ g' = gg
    /\ eps' = e
    /\ LET r == calculate_KL_for_given_parameters(ff, gg, e, x)
       IN  /\ parameters' = x
           /\ x_val' = r.x_val
           /\ fx' = r.fx
           /\ gx' = r.gx
           /\ answer' = r.answer
    /\ nfev' = 1
    /\ evaluated' = {x}
    /\ UNCHANGED <<proj, proj_eps, moment_estimate, information_estimate, calls, probe>>
    /\ UNCHANGED outside_projection

NextKL ==
    \E ff \in Evaluators, gg \in Evaluators, e \in StepSet,
       m \in MuSet, sd \in SigmaSet : CallObjective(ff, gg, e, <<m, sd>>)

SpecKL == Init /\ [][NextKL]_vars

(***************************************************************************)
(* Repeated runs: the two statements of the work cell (lines 263-271)      *)
(* executed more than once and in either order, as the cells of a notebook *)
(* can be.  minimize is a deterministic function of what it is given (x0,  *)
(* the bounds) and of the values the objective returns to it: memo records *)
(* what it did after each sequence of <<vector, value>> it had seen, and   *)
(* it does the same when it has seen the same.  Both statements call with   *)
(* the default eps (lines 264, 268): the runs of a session share their eps. *)
(***************************************************************************)
\* executions of a statement of the work cell in one session
MaxRuns == 3

\* x0=np.array([0, 5]) is built anew in every call (line 181)
\* variant: one array shared by the calls, left at the last result
StartVectorShared ==
    IF Len(runs) >= 2
    THEN runs[Len(runs) - 1].x
    ELSE Clip(x0)
StartVector == Clip(x0)

\* the vectors minimize may try after the start: the two modes of the target,
\* the narrow one at the smallest scale
RerunVectors == {<<mean2, stddev2>>, <<mean1, ScaleLowerBound>>}

\* minimize does d now only if it did d whenever it had seen the same
Consistent(d) == \A m \in memo : m.seen = observed => m.did = d

Remember(d) == memo \cup {[seen |-> observed, did |-> d]}

RerunCall(which, e) ==
    /\ pc \in {"find_moment", "idle"}
    /\ Len(runs) < MaxRuns
    /\ runs # <<>> => e = runs[1].eps
    /\ LET args == IF which = "moment" THEN generate_moment_projection(e)
                   ELSE generate_information_projection(e)
       IN  /\ f' = args.f
           /\ g' = args.g
           /\ eps' = args.eps
           /\ runs' = Append(runs, [proj |-> which, f |-> args.f, g |-> args.g,
                                    eps |-> args.eps, outcome |-> "running",
                                    x |-> <<>>])
    /\ proj' = which
    /\ proj_eps' = e
    /\ pc' = "minimize"
    /\ nfev' = 0
    /\ evaluated' = {}
    /\ observed' = <<>>
    /\ UNCHANGED <<parameters, x_val, fx, gx, answer, moment_estimate,
                   information_estimate, calls, probe, memo>>
    /\ UNCHANGED outside_rerun

\* minimize calls the objective: first at the start vector, then where it
\* decides to (a vector it has evaluated in this call would tell it nothing new)
RerunEvaluate(x) ==
    /\ pc = "minimize"
    /\ nfev < MaxEvals
    /\ IF nfev = 0
       THEN x = StartVector /\ UNCHANGED memo
       ELSE /\ x \in RerunVectors \ evaluated
            /\ Consistent([k |-> "evaluate", x |-> x])
            /\ memo' = Remember([k |-> "evaluate", x |-> x])
    /\ LET r == calculate_KL_for_given_parameters(f, g, eps, x)
       IN  /\ parameters' = x
           /\ x_val' = r.x_val
           /\ fx' = r.fx
           /\ gx' = r.gx
           /\ answer' = r.answer
           /\ observed' = Append(observed, <<x, r.answer>>)
    /\ nfev' = nfev + 1
    /\ evaluated' = evaluated \cup {x}
    /\ UNCHANGED <<pc, proj, proj_eps, f, g, eps, moment_estimate,
                   information_estimate, calls, probe, runs>>
    /\ UNCHANGED outside_rerun

\* minimize returns; optimize_parameters returns optimum['x'] and the cell
\* binds it
RerunReturn(x) ==
    /\ pc = "minimize"
    /\ nfev >= 1
    /\ x \in evaluated
    /\ Consistent([k |-> "return", x |-> x])
    /\ memo' = Remember([k |-> "return", x |-> x])
    /\ LET result == ReturnValue([x |-> x, success |-> TRUE])
       IN  /\ runs' = [runs EXCEPT ![Len(runs)].outcome = "returned",
                                   ![Len(runs)].x = result]
           /\ IF proj = "moment"
              THEN /\ moment_estimate' = Bound(result)
                   /\ UNCHANGED information_estimate
              ELSE /\ information_estimate' = Bound(result)
                   /\ UNCHANGED moment_estimate
    /\ pc' = "idle"
    /\ DropLocals
    /\ observed' = <<>>
    /\ UNCHANGED <<calls, probe>>
    /\ UNCHANGED outside_rerun

NextRerun ==
    \/ \E which \in {"moment", "information"}, e \in EpsSet : RerunCall(which, e)
    \/ \E m \in MuSet, sd \in SigmaSet : RerunEvaluate(<<m, sd>>)
    \/ \E m \in MuSet, sd \in SigmaSet : RerunReturn(<<m, sd>>)

SpecRerun == Init /\ [][NextRerun]_vars

(***************************************************************************)
(* The Gibbs sampling notebook (src/unnamed/part_002).  Samples are in     *)
(* hundredths, like x.  np.random.normal(loc, scale) is loc + scale * xi   *)
(* with xi a standard normal draw, here one of a few values.  The right    *)
(* hand sides of lines 158, 161, 188 and 189 are blanks in the notebook:   *)
(* they are the conditionals its markdown derives (lines 83-94) and the    *)
(* conditioning its markdown prescribes (lines 198-199).                   *)
(***************************************************************************)
\* mu_x, sigma_x, sigma and obs_z of lines 66-73
mu_x == 0
sigma_x == 1
sigma_obs == 2
obs_z == 2

\* iterations of the sampler loop (200 in the notebook, line 111)
num_iter == 3

\* the standard normal draws considered: -1, 0, 1
StandardNormalDraws == {-XS, 0, XS}

ISqrt(n) == CHOOSE r \in 0..n : r * r <= n /\ n < (r + 1) * (r + 1)

NormalSample(loc, scale, xi) == loc + (scale * xi) \div XS

\* the conditional mean of x given y and z (line 93):
\* sx2/(sx2 + s2/2) * (y + z)/2 + (s2/2)/(sx2 + s2/2) * mu_x
PosteriorMean(y) ==
    LET sx2 == sigma_x * sigma_x
        s2 == sigma_obs * sigma_obs
    IN  (sx2 * (y + obs_z * XS) + s2 * mu_x * XS) \div (2 * sx2 + s2)

\* the square root of the conditional variance (1/sx2 + 2/s2)^-1 (line 94)
PosteriorSd ==
    LET sx2 == sigma_x * sigma_x
        s2 == sigma_obs * sigma_obs
    IN  ISqrt((sx2 * s2 * XS * XS) \div (s2 + 2 * sx2))

\* the body of the loop (lines 211-212)
\* variant: the two calls in the other order
LoopBodyYFirst == <<"sample_y", "sample_x">>
LoopBody == <<"sample_x", "sample_y">>

\* the cell of lines 111-136: the arrays, their first entries and the indices
InitializeSampler(xi_x, xi_y) ==
    /\ gibbs_pc = "initialize"
    /\ x_samples' = [i \in 0..num_iter |->
                        IF i = 0 THEN NormalSample(0, XS, xi_x) ELSE 0]
    /\ last_x_idx' = 0
    /\ y_samples' = [i \in 0..num_iter |->
                        IF i = 0 THEN NormalSample(0, XS, xi_y) ELSE 0]
    /\ last_y_idx' = 0
    /\ loop_i' = 0
    /\ gibbs_pc' = IF num_iter > 0 THEN LoopBody[1] ELSE "done"
    /\ UNCHANGED outside_gibbs

\* sample_x() (lines 153-167)
\* variant: the value is written before the counter is incremented
sample_x_write_first(xi) ==
    LET mean == PosteriorMean(y_samples[last_y_idx])
        sd == PosteriorSd
    IN  /\ x_samples' = [x_samples EXCEPT ![last_x_idx] = NormalSample(mean, sd, xi)]
        /\ last_x_idx' = last_x_idx + 1
        /\ UNCHANGED <<y_samples, last_y_idx>>
sample_x(xi) ==
    LET mean == PosteriorMean(y_samples[last_y_idx])
        sd == PosteriorSd
    IN  /\ last_x_idx' = last_x_idx + 1
        /\ x_samples' = [x_samples EXCEPT ![last_x_idx + 1] = NormalSample(mean, sd, xi)]
        /\ UNCHANGED <<y_samples, last_y_idx>>

\* sample_y() (lines 184-190)
sample_y(xi) ==
    /\ last_y_idx' = last_y_idx + 1
    /\ y_samples' = [y_samples EXCEPT ![last_y_idx + 1] =
                        NormalSample(x_samples[last_x_idx], sigma_obs * XS, xi)]
    /\ UNCHANGED <<x_samples, last_x_idx>>

\* for i in range(num_iter): after a call the next call of the body, or the
\* next iteration, or the end of the loop
\* variant: range(num_iter + 1)
AfterCallOneMore ==
    LET k == CHOOSE n \in 1..Len(LoopBody) : LoopBody[n] = gibbs_pc
    IN  IF k < Len(LoopBody)
        THEN gibbs_pc' = LoopBody[k + 1] /\ loop_i' = loop_i
        ELSE /\ loop_i' = loop_i + 1
             /\ gibbs_pc' = IF loop_i + 1 < num_iter + 1 THEN LoopBody[1] ELSE "done"
AfterCall ==
    LET k == CHOOSE n \in 1..Len(LoopBody) : LoopBody[n] = gibbs_pc
    IN  IF k < Len(LoopBody)
        THEN gibbs_pc' = LoopBody[k + 1] /\ loop_i' = loop_i
        ELSE /\ loop_i' = loop_i + 1
             /\ gibbs_pc' = IF loop_i + 1 < num_iter THEN LoopBody[1] ELSE "done"

LoopSampleX(xi) ==
    /\ gibbs_pc = "sample_x"
    /\ sample_x(xi)
    /\ AfterCall
    /\ UNCHANGED outside_gibbs

LoopSampleY(xi) ==
    /\ gibbs_pc = "sample_y"
    /\ sample_y(xi)
    /\ AfterCall
    /\ UNCHANGED outside_gibbs

NextGibbs ==
    \/ \E xi_x \in StandardNormalDraws, xi_y \in StandardNormalDraws :
        InitializeSampler(xi_x, xi_y)
    \/ \E xi \in StandardNormalDraws : LoopSampleX(xi)
    \/ \E xi \in StandardNormalDraws : LoopSampleY(xi)

SpecGibbs == Init /\ [][NextGibbs]_vars

(***************************************************************************)
(* The batch generators: data_generator of the gradient ascent notebook    *)
(* (src/unnamed/part_000, lines 61-73) and generator of the VAE notebook   *)
(* (src/unnamed/part_001, lines 61-75).  An array is a sequence; the       *)
(* Python index i is the position i + 1.  A generator is its arguments and *)
(* its local start; next() runs its loop body once, up to the yield.        *)
(***************************************************************************)
\* longest array, largest batch size, and the next() calls counted
MaxLen == 3
MaxBatch == 7
MaxNexts == 4

Min(a, b) == IF a <= b THEN a ELSE b

\* the indices array[lo:hi] selects from an array of length n, 0 <= lo, 0 <= hi
SliceIndices(n, lo, hi) ==
    LET a == Min(lo, n)
        b == Min(hi, n)
    IN  [j \in 1..Max(b - a, 0) |-> a + j - 1]

\* the elements of an array at a sequence of indices
Take(arr, indices) == [j \in 1..Len(indices) |-> arr[indices[j] + 1]]

\* one pass of data_generator's loop (part_000, lines 65-72): the indices of
\* the batch and the new start
\* variant: the pointer is not advanced when the batch does not wrap around
data_generator_stuck(arr, bs, st) ==
    LET stop == st + bs
        diff == stop - Len(arr)
    IN  IF diff <= 0
        THEN [picked |-> SliceIndices(Len(arr), st, stop), start |-> st]
        ELSE [picked |-> SliceIndices(Len(arr), st, Len(arr))
                            \o SliceIndices(Len(arr), 0, diff),
              start |-> diff]
data_generator_body(arr, bs, st) ==
    LET stop == st + bs
        diff == stop - Len(arr)
    IN  IF diff <= 0
        THEN [picked |-> SliceIndices(Len(arr), st, stop), start |-> st + bs]
        ELSE [picked |-> SliceIndices(Len(arr), st, Len(arr))
                            \o SliceIndices(Len(arr), 0, diff),
              start |-> diff]

\* one pass of generator's loop (part_001, lines 65-72)
\* variant: the pointer goes back to the beginning after a batch that wraps
generator_restarts(arr, bs, st) ==
    LET stop == st + bs
        diff == stop - Len(arr)
    IN  IF diff <= 0
        THEN [picked |-> SliceIndices(Len(arr), st, stop), start |-> st + bs]
        ELSE [picked |-> SliceIndices(Len(arr), st, Len(arr))
                            \o SliceIndices(Len(arr), 0, diff),
              start |-> 0]
generator_body(arr, bs, st) ==
    LET stop == st + bs
        diff == stop - Len(arr)
    IN  IF diff <= 0
        THEN [picked |-> SliceIndices(Len(arr), st, stop), start |-> st + bs]
        ELSE [picked |-> SliceIndices(Len(arr), st, Len(arr))
                            \o SliceIndices(Len(arr), 0, diff),
              start |-> diff]

\* np.random.binomial(1, v / 255.0) for a pixel v (part_001, lines 73-74):
\* the values it can return
Binarized(v) == IF v = 0 THEN {0} ELSE IF v = 255 THEN {1} ELSE {0, 1}

\* the arrays handed to the generators: floats, and pixel intensities
DataArrays == {[i \in 1..n |-> 100 * i] : n \in 1..MaxLen}
PixelArrays == {[i \in 1..n |-> (CASE i % 3 = 0 -> 0 [] i % 3 = 1 -> 128 [] OTHER -> 255)] :
                    n \in 1..MaxLen}

\* batch_generator = data_generator(arr, bs) and
\* x_train_generator = generator(varr, bs) on an array of the same length
CreateGenerators(arr, varr, bs) ==
    /\ gen_pc = "undefined"
    /\ Len(arr) = Len(varr)
    /\ gen_pc' = "ready"
    /\ array' = arr
    /\ vae_array' = varr
    /\ batch_size' = bs
    /\ start' = 0
    /\ vae_start' = 0
    /\ UNCHANGED <<batch, picked, nexts, vae_batch, vae_picked, vae_nexts>>
    /\ UNCHANGED <<ascent_vars, outside_ascent>>

\* next(batch_generator).  start grows without bound when batch_size exceeds
\* the length of the array: the calls are counted up to MaxNexts then, and
\* the count stays at MaxNexts otherwise
NextData ==
    /\ gen_pc = "ready"
    /\ nexts < MaxNexts \/ batch_size <= Len(array)
    /\ LET r == data_generator_body(array, batch_size, start)
       IN  /\ start' = r.start
           /\ picked' = r.picked
           /\ batch' = Take(array, r.picked)
    /\ nexts' = Min(nexts + 1, MaxNexts)
    /\ UNCHANGED <<gen_pc, array, batch_size, vae_array, vae_start, vae_batch,
                   vae_picked, vae_nexts>>
    /\ UNCHANGED <<ascent_vars, outside_ascent>>

\* next(x_train_generator), with the outcome of np.random.binomial
NextVae(outcome) ==
    /\ gen_pc = "ready"
    /\ vae_nexts < MaxNexts \/ batch_size <= Len(vae_array)
    /\ LET r == generator_body(vae_array, batch_size, vae_start)
       IN  /\ vae_start' = r.start
           /\ vae_picked' = r.picked
           /\ Len(outcome) = Len(r.picked)
           /\ \A j \in 1..Len(r.picked) :
                outcome[j] \in Binarized(Take(vae_array, r.picked)[j])
           /\ vae_batch' = outcome
    /\ vae_nexts' = Min(vae_nexts + 1, MaxNexts)
    /\ UNCHANGED <<gen_pc, array, batch_size, start, batch, picked, nexts, vae_array>>
    /\ UNCHANGED <<ascent_vars, outside_ascent>>

NextGenerators ==
    \/ \E arr \in DataArrays, varr \in PixelArrays, bs \in 1..MaxBatch :
        CreateGenerators(arr, varr, bs)
    \/ NextData
    \/ \E n \in 0..(2 * MaxLen) : \E outcome \in [1..n -> {0, 1}] : NextVae(outcome)

SpecGenerators == Init /\ [][NextGenerators]_vars

\* the consumer keeps calling next(batch_generator)
SpecGeneratorsFair == SpecGenerators /\ WF_vars(NextData)

(***************************************************************************)
(* The gradient ascent notebook (src/unnamed/part_000).  Data, mu, tau and *)
(* gradients are in thousandths, learning rates in millionths and log      *)
(* likelihoods in thousandths.                                             *)
(***************************************************************************)
Milli == 10 * 10 * 10
Micro == Milli * Milli

\* the value of a name that is not yet bound (step before the loop)
NotBound == -1

\* calculate_learning_rate (lines 89-91), the exponent in tenths:
\* (1 + _step / _divisor) ** (-_exponent) * _start_lr
calculate_learning_rate(_step, _start_lr, _divisor, exponent_tenths) ==
    LET lr_scale == Exp(-((exponent_tenths * Ln(_divisor + _step, _divisor)) \div 10))
    IN  (lr_scale * _start_lr) \div LinS

\* np.sum over a sequence of integers
RECURSIVE SumSeq(_)
SumSeq(q) ==
    IF Len(q) = 0 THEN 0
    ELSE IF Len(q) = 1 THEN q[1]
    ELSE LET h == Len(q) \div 2
         IN  SumSeq(SubSeq(q, 1, h)) + SumSeq(SubSeq(q, h + 1, Len(q)))

\* calculate_log_likelihood (lines 174-175): the sum of
\* norm(loc=_mu, scale=1/sqrt(_tau)).logpdf(_data), nan for a negative _tau
calculate_log_likelihood(_data, _mu, _tau) ==
    IF _tau < 0 THEN LNaN
    ELSE IF _tau = 0 THEN LNegInf
    ELSE Fin(SumSeq([i \in 1..Len(_data) |->
                Ln(_tau, Milli) \div 2 - LnSqrt2Pi
                - (_tau * (((_data[i] - _mu) * (_data[i] - _mu)) \div Milli)) \div (2 * Milli)]))

\* the inverse Fisher matrix diag(1/tau, 2 * tau**2) applied to a gradient
\* (comment of lines 199-200)
InverseFisher(_tau, gradient) ==
    <<(gradient[1] * Milli) \div _tau,
      ((((gradient[2] * 2) * _tau) \div Milli) * _tau) \div Milli>>

\* calculate_gradient (lines 193-206), for _tau # 0
\* variant: the natural gradient is taken from the scaled gradient
calculate_gradient_scaled(N, _data, _mu, _tau) ==
    LET partial_mu == (_tau * SumSeq([i \in 1..Len(_data) |-> _data[i] - _mu])) \div Milli
        partial_tau ==
            (Len(_data) * Micro) \div (2 * _tau)
            - SumSeq([i \in 1..Len(_data) |->
                        ((_data[i] - _mu) * (_data[i] - _mu)) \div Milli]) \div 2
        euclidean_gradient == <<(N * partial_mu) \div Len(_data),
                                (N * partial_tau) \div Len(_data)>>
    IN  [natural_gradient |-> InverseFisher(_tau, euclidean_gradient),
         euclidean_gradient |-> euclidean_gradient]
calculate_gradient(N, _data, _mu, _tau) ==
    LET partial_mu == (_tau * SumSeq([i \in 1..Len(_data) |-> _data[i] - _mu])) \div Milli
        partial_tau ==
            (Len(_data) * Micro) \div (2 * _tau)
            - SumSeq([i \in 1..Len(_data) |->
                        ((_data[i] - _mu) * (_data[i] - _mu)) \div Milli]) \div 2
        euclidean_gradient == <<(N * partial_mu) \div Len(_data),
                                (N * partial_tau) \div Len(_data)>>
        natural_mu == (partial_mu * Milli) \div _tau
        natural_tau == ((((partial_tau * 2) * _tau) \div Milli) * _tau) \div Milli
    IN  [natural_gradient |-> <<natural_mu, natural_tau>>,
         euclidean_gradient |-> euclidean_gradient]

\* generate_plot (lines 110-127): the trace it draws when it is given
\* mu_list and tau_list, one plt.plot per point in range(step), each of the
\* list entries mu_list[point:point + 2]; step is the notebook's global
\* variant: one plt.plot per pair of consecutive entries
generate_plot_by_length(global_step, _mu_list, _tau_list) ==
    [point \in 1..(Len(_mu_list) - 1) |->
        SliceIndices(Len(_mu_list), point - 1, point + 1)]
generate_plot(global_step, _mu_list, _tau_list) ==
    [point \in 1..global_step |->
        SliceIndices(Len(_mu_list), point - 1, point + 1)]

\* range(101) (line 266), step % 25 (line 272), the exponent 1.1 in tenths
\* and the default _divisor (lines 267, 89)
\* variant: range(100)
LoopRangeHundred == 10 * 10
LoopRange == 101
PlotEvery == 25
ExponentTenths == 11
Divisor == 100

\* current_mu = -1, current_tau = .1, initial_learning_rate = 1E-3
\* (lines 237-241)
StartMu == -Milli
StartTau == Milli \div 10
initial_learning_rate == Micro \div Milli

\* the samples standing for full_data = np.random.randn(100) (line 233)
FullDataSet ==
    {<<500, -1200>>, <<300, -700, 1500>>, <<-400, 900, 2100, -1500>>}

\* the setup cell (lines 224-250)
Setup(full_data, bs, natural) ==
    /\ ascent_pc = "setup"
    /\ batch_size' = bs
    /\ do_natural_gradient' = natural
    /\ array' = full_data
    /\ gen_pc' = "ready"
    /\ start' = 0
    /\ current_mu' = StartMu
    /\ current_tau' = StartTau
    /\ mu_list' = <<StartMu>>
    /\ tau_list' = <<StartTau>>
    /\ total_examples_seen' = <<0>>
    /\ log_likelihoods' = <<calculate_log_likelihood(full_data, StartMu, StartTau)>>
    /\ step' = NotBound
    /\ ascent_pc' = "loop"
    /\ UNCHANGED <<batch, picked, nexts, vae_array, vae_start, vae_batch,
                   vae_picked, vae_nexts, nat_grad, euc_grad, gradient_N, plots>>
    /\ UNCHANGED outside_ascent

\* one iteration of the loop (lines 266-287)
LoopStep ==
    /\ ascent_pc = "loop"
    /\ step + 1 < LoopRange
    /\ LET s == step + 1
           learning_rate ==
               calculate_learning_rate(s, initial_learning_rate, Divisor, ExponentTenths)
           r == data_generator_body(array, batch_size, start)
           sample == Take(array, r.picked)
           grads == calculate_gradient(Len(array), sample, current_mu, current_tau)
           grad == IF do_natural_gradient THEN grads.natural_gradient
                   ELSE grads.euclidean_gradient
           new_mu == current_mu + (learning_rate * grad[1]) \div Micro
           new_tau == current_tau + (learning_rate * grad[2]) \div Micro
       IN  /\ step' = s
           /\ start' = r.start
           /\ picked' = r.picked
           /\ batch' = sample
           /\ nexts' = Min(nexts + 1, MaxNexts)
           /\ nat_grad' = grads.natural_gradient
           /\ euc_grad' = grads.euclidean_gradient
           /\ gradient_N' = Len(array)
           /\ plots' = IF s % PlotEvery = 0
                       THEN Append(plots, [at |-> s, final |-> FALSE,
                                           trace_len |-> Len(mu_list),
                                           segments |-> generate_plot(s, mu_list, tau_list)])
                       ELSE plots
           /\ current_mu' = new_mu
           /\ current_tau' = new_tau
           /\ mu_list' = Append(mu_list, new_mu)
           /\ tau_list' = Append(tau_list, new_tau)
           /\ total_examples_seen' =
                Append(total_examples_seen,
                       batch_size + total_examples_seen[Len(total_examples_seen)])
           /\ log_likelihoods' =
                Append(log_likelihoods, calculate_log_likelihood(array, new_mu, new_tau))
    /\ UNCHANGED <<ascent_pc, do_natural_gradient, gen_pc, array, batch_size,
                   vae_array, vae_start, vae_batch, vae_picked, vae_nexts>>
    /\ UNCHANGED outside_ascent

\* the loop has ended; the cell of lines 303-310 plots the final result
FinalPlot ==
    /\ ascent_pc = "loop"
    /\ step + 1 >= LoopRange
    /\ plots' = Append(plots, [at |-> step, final |-> TRUE,
                               trace_len |-> Len(mu_list),
                               segments |-> generate_plot(step, mu_list, tau_list)])
    /\ ascent_pc' = "done"
    /\ UNCHANGED <<do_natural_gradient, step, current_mu, current_tau, mu_list,
                   tau_list, total_examples_seen, log_likelihoods, nat_grad,
                   euc_grad, gradient_N>>
    /\ UNCHANGED <<generator_vars, outside_ascent>>

NextAscent ==
    \/ \E full_data \in FullDataSet, natural \in BOOLEAN :
        \E bs \in 1..Len(full_data) : Setup(full_data, bs, natural)
    \/ LoopStep
    \/ FinalPlot

SpecAscent == Init /\ [][NextAscent]_vars

\* the for loop of line 266 goes on to its next value of step
ForAdvances == ascent_pc = "loop" /\ step + 1 < LoopRange /\ step' = step + 1

\* a running cell executes its next statement: the for loop is not suspended
\* for ever and the cell of lines 303-310 is run after it
SpecAscentFair == SpecAscent /\ WF_step(ForAdvances) /\ WF_ascent_pc(FinalPlot)

(***************************************************************************)
(* Properties.                                                             *)
(***************************************************************************)
InObjective == pc = "minimize" /\ nfev >= 1

Estimate(which) == IF which = "moment" THEN moment_estimate ELSE information_estimate

\* C1: every value a density evaluator returns, p_distribution_pdf's as well
\* as q_distribution_pdf's, is at least the floor 1e-6.
C1_DensitiesFloored ==
    probe.out.k = "ok" =>
        \A i \in 1..Len(probe.out.v) : AtLeast(probe.out.v[i], LnFloor)

\* C2: q_distribution_pdf called with loc or scale missing or with scale <= 0
\* raises or clamps the scale; it returns no NaN.
C2_BadScaleRejectedOrClamped ==
    (/\ probe.fn = "q_distribution_pdf"
     /\ \/ "loc" \notin DOMAIN probe.kwargs
        \/ "scale" \notin DOMAIN probe.kwargs
        \/ probe.kwargs["scale"] <= 0)
    => \/ probe.out.k = "raise"
       \/ /\ probe.out.k = "ok"
          /\ \A i \in 1..Len(probe.out.v) : probe.out.v[i].k # "nan"

\* C3: at every objective evaluation, in both KL directions, f and g are
\* strictly positive at every grid point and f / g is positive and finite.
C3_LogArgumentPositive ==
    InObjective =>
        \A i \in 1..Len(x_val) :
            /\ IsPos(fx[i])
            /\ IsPos(gx[i])
            /\ fx[i].ln - gx[i].ln >= MinLn
            /\ fx[i].ln - gx[i].ln <= MaxLn

\* an evaluation of KL(q||p) at the smallest scale, where the Gaussian itself
\* underflows to zero at a grid point and the mixture's first component too
C3_Witness ==
    /\ InObjective
    /\ f = "q_distribution_pdf"
    /\ parameters[2] = ScaleLowerBound
    /\ \E i \in 1..Len(x_val) :
        /\ NormPdf(x_val[i], parameters[1], parameters[2]) = Zero
        /\ NormPdf(x_val[i], mean1, stddev1) = Zero

\* C4: the scale is at least 1e-2 at the starting point, at every vector the
\* objective is evaluated at, and in every result.
C4_ScaleWithinBounds ==
    /\ \A x \in MinimizerPoints(0) : x[2] >= ScaleLowerBound
    /\ InObjective => parameters[2] >= ScaleLowerBound
    /\ \A x \in evaluated : x[2] >= ScaleLowerBound
    /\ \A i \in 1..Len(calls) :
        calls[i].outcome \in {"converged", "not_converged"}
            => calls[i].x[2] >= ScaleLowerBound
    /\ moment_estimate.bound => moment_estimate.v[2] >= ScaleLowerBound
    /\ information_estimate.bound => information_estimate.v[2] >= ScaleLowerBound

\* both projections returned a scale on the bound, from different means
C4_Witness ==
    /\ moment_estimate.bound
    /\ information_estimate.bound
    /\ moment_estimate.v[2] = ScaleLowerBound
    /\ information_estimate.v[2] = ScaleLowerBound
    /\ moment_estimate.v[1] # information_estimate.v[1]

\* f(x_i) * log(f(x_i) / g(x_i)) in ten-thousandths, for positive f and g
C5_Term(i) == MulDiv(Exp(fx[i].ln), fx[i].ln - gx[i].ln, LS)

RECURSIVE C5_Sum(_)
C5_Sum(n) == IF n = 0 THEN 0 ELSE C5_Sum(n - 1) + C5_Term(n)

\* C5: the objective returns eps times the sum over the grid points of
\* f(x_i) * log(f(x_i) / g(x_i)), f and g evaluated at loc=mu, scale=sigma.
C5_RiemannSum ==
    InObjective =>
        /\ x_val = Arange(DomainLo, DomainHi, eps)
        /\ Len(fx) = Len(x_val)
        /\ Len(gx) = Len(x_val)
        /\ \A i \in 1..Len(x_val) :
            /\ fx[i] = Apply(f, <<x_val[i]>>, Kwargs(parameters[1], parameters[2])).v[1]
            /\ gx[i] = Apply(g, <<x_val[i]>>, Kwargs(parameters[1], parameters[2])).v[1]
        /\ answer = Fin(MulDiv(C5_Sum(Len(x_val)), eps, XS))

\* an evaluation with terms of both signs and a sum that is not zero
C5_Witness ==
    /\ InObjective
    /\ answer.k = "fin"
    /\ answer.v # 0
    /\ \E i, j \in 1..Len(x_val) : C5_Term(i) > 0 /\ C5_Term(j) < 0

\* C6: the moment projection runs the driver with f = p, g = q and its own
\* eps: the objective is KL(p||q).
C6_MomentCall ==
    proj = "moment" =>
        /\ f = "p_distribution_pdf"
        /\ g = "q_distribution_pdf"
        /\ eps = proj_eps
        /\ InObjective =>
            /\ x_val = Arange(DomainLo, DomainHi, proj_eps)
            /\ fx = p_distribution_pdf(x_val, NoKwargs).v
            /\ gx = q_distribution_pdf(x_val, Kwargs(parameters[1], parameters[2])).v

\* KL(p||q) evaluated away from the starting point, with an eps of the caller
C6_Witness ==
    /\ proj = "moment"
    /\ InObjective
    /\ proj_eps # DefaultEps
    /\ parameters # x0
    /\ answer.k = "fin"
    /\ answer.v > 0

\* C7: the information projection runs the driver with f = q, g = p and its
\* own eps: the objective is KL(q||p), and the call differs from the moment
\* projection's by the swap of f and g alone.
C7_InformationCall ==
    /\ proj = "information" =>
        /\ f = "q_distribution_pdf"
        /\ g = "p_distribution_pdf"
        /\ eps = proj_eps
        /\ InObjective =>
            /\ x_val = Arange(DomainLo, DomainHi, proj_eps)
            /\ fx = q_distribution_pdf(x_val, Kwargs(parameters[1], parameters[2])).v
            /\ gx = p_distribution_pdf(x_val, NoKwargs).v
    /\ \A e \in EpsSet :
        generate_information_projection(e) =
            [f |-> generate_moment_projection(e).g,
             g |-> generate_moment_projection(e).f,
             eps |-> generate_moment_projection(e).eps]

\* KL(q||p) evaluated away from the starting point
C7_Witness ==
    /\ proj = "information"
    /\ InObjective
    /\ parameters # x0
    /\ answer.k = "fin"
    /\ answer.v > 0

\* C8: one minimize call per projection and no retry: the moment call first,
\* the information call second, two calls in a full run, converged or not.
C8_OneCallPerProjection ==
    /\ Len(calls) <= 2
    /\ \A i \in 1..Len(calls) :
        calls[i].proj = (IF i = 1 THEN "moment" ELSE "information")
    /\ pc = "find_moment" => calls = <<>>
    /\ pc = "find_information" => Len(calls) = 1
    /\ pc = "done" => Len(calls) = 2

\* a full run in which neither call converged
C8_Witness ==
    /\ pc = "done"
    /\ Len(calls) = 2
    /\ calls[1].outcome = "not_converged"
    /\ calls[2].outcome = "not_converged"

\* C9: when minimize reports no convergence the caller still receives the
\* vector minimize reported, unchanged, and the run goes on.
C9_ReturnsReportedVector ==
    \A i \in 1..Len(calls) :
        calls[i].outcome = "not_converged" =>
            /\ Estimate(calls[i].proj) = Bound(calls[i].x)
            /\ i = Len(calls) => pc \in {"find_information", "done"}

\* a call that did not converge reported a vector other than the start
C9_Witness ==
    /\ Len(calls) >= 1
    /\ calls[1].outcome = "not_converged"
    /\ calls[1].x # x0
    /\ moment_estimate = Bound(calls[1].x)

\* C10: a projection ends with a complete (mean, scale) pair bound, or with
\* the failure of minimize propagated and nothing bound.
C10_FullPairOrFailure ==
    /\ \A which \in {"moment", "information"} :
        Estimate(which).bound =>
            /\ Len(Estimate(which).v) = 2
            /\ \E i \in 1..Len(calls) :
                /\ calls[i].proj = which
                /\ calls[i].outcome \in {"converged", "not_converged"}
                /\ Estimate(which).v = calls[i].x
    /\ \A i \in 1..Len(calls) :
        /\ calls[i].outcome = "raised" =>
            /\ ~Estimate(calls[i].proj).bound
            /\ pc = "raised"
            /\ i = Len(calls)
        /\ calls[i].outcome \in {"converged", "not_converged"} =>
            Estimate(calls[i].proj).bound
    /\ pc = "raised" => calls[Len(calls)].outcome = "raised"

\* minimize raised in the moment projection after evaluating the objective
C10_Witness ==
    /\ pc = "raised"
    /\ Len(calls) = 1
    /\ calls[1].outcome = "raised"
    /\ ~moment_estimate.bound
    /\ ~information_estimate.bound

\* C11: p_distribution_pdf ignores the parameters it is passed: for every x it
\* returns the same values for any two parameter sets, none at all included.
C11_TargetIgnoresParameters ==
    probe.fn = "p_distribution_pdf" =>
        /\ probe.out.k = "ok"
        /\ Len(probe.out.v) = Len(probe.x)
        /\ \A kw \in KwargsSet : p_distribution_pdf(probe.x, kw) = probe.out
        /\ \A i \in 1..Len(probe.x) :
            probe.out.v[i] =
                Plus(Times(Ln(w, 10), NormPdf(probe.x[i], mean1, stddev1)),
                     Times(Ln(10 - w, 10), NormPdf(probe.x[i], mean2, stddev2)))

\* the target called with a loc other than its means and a scale that is no
\* standard deviation, on two different points
C11_Witness ==
    /\ probe.fn = "p_distribution_pdf"
    /\ "loc" \in DOMAIN probe.kwargs
    /\ "scale" \in DOMAIN probe.kwargs
    /\ probe.kwargs["loc"] \notin {mean1, mean2}
    /\ probe.kwargs["scale"] <= 0
    /\ Len(probe.x) = 2
    /\ probe.x[1] # probe.x[2]
    /\ probe.out.v[1] # probe.out.v[2]

\* C12: the estimator applied to (f, f) with the same parameters returns
\* exactly 0, every term of its sum being 0, for every evaluator, every
\* vector inside the bounds and every step size.
C12_SelfDivergenceZero ==
    (InObjective /\ f = g) =>
        /\ Len(x_val) >= 1
        /\ gx = fx
        /\ \A i \in 1..Len(x_val) : KLTerm(fx[i], gx[i]) = Fin(0)
        /\ answer = Fin(0)

\* KL(q||q) on a fine grid at the smallest scale: q is above 1 at one grid
\* point and on its floor at another
C12_Witness ==
    /\ InObjective
    /\ f = "q_distribution_pdf"
    /\ g = "q_distribution_pdf"
    /\ parameters[2] = ScaleLowerBound
    /\ eps < stddev1
    /\ \E i, j \in 1..Len(x_val) : fx[i].ln > 0 /\ fx[j].ln = LnFloor
    /\ answer = Fin(0)

\* C15: the driver is deterministic and keeps nothing between calls: two
\* calls with the same f, g and eps return the same pair, whatever ran
\* before or between them, and every call starts from x0.
C15_SameCallSameResult ==
    /\ \A i, j \in 1..Len(runs) :
        (/\ runs[i].outcome = "returned"
         /\ runs[j].outcome = "returned"
         /\ runs[i].f = runs[j].f
         /\ runs[i].g = runs[j].g
         /\ runs[i].eps = runs[j].eps) => runs[i].x = runs[j].x
    /\ (pc = "minimize" /\ nfev >= 1) => observed[1][1] = Clip(x0)
    /\ \A i \in 1..Len(runs) :
        runs[i].outcome = "returned" =>
            \E m \in memo :
                /\ m.did = [k |-> "return", x |-> runs[i].x]
                /\ m.seen[1][1] = Clip(x0)

\* the information projection before and after the moment projection, with
\* the same result both times, away from the start and from the moment
\* projection's result
C15_Witness ==
    /\ Len(runs) = 3
    /\ runs[1].proj = "information"
    /\ runs[2].proj = "moment"
    /\ runs[3].proj = "information"
    /\ runs[1].eps = runs[3].eps
    /\ runs[3].outcome = "returned"
    /\ runs[3].x = runs[1].x
    /\ runs[1].x # Clip(x0)
    /\ runs[2].x \notin {runs[1].x, Clip(x0)}

\* C16: while minimize runs, no step changes f, g, eps, the grid or the
\* values of the target p on it, nor an estimate already bound; and whatever
\* else the objective computes changes only if the parameter vector does.
C16_RunFrame ==
    [][(pc = "minimize" /\ pc' = "minimize") =>
        /\ f' = f
        /\ g' = g
        /\ eps' = eps
        /\ proj' = proj
        /\ proj_eps' = proj_eps
        /\ moment_estimate' = moment_estimate
        /\ information_estimate' = information_estimate
        /\ nfev >= 1 =>
            /\ x_val' = x_val
            /\ f = "p_distribution_pdf" => fx' = fx
            /\ g = "p_distribution_pdf" => gx' = gx
            /\ parameters' = parameters =>
                (fx' = fx /\ gx' = gx /\ answer' = answer)]_vars

\* the second projection, its third evaluation, at a third vector: mean and
\* scale have both left the start
C16_Witness ==
    /\ pc = "minimize"
    /\ proj = "information"
    /\ moment_estimate # Unbound
    /\ nfev = 3
    /\ Cardinality(evaluated) = 3
    /\ parameters[1] # x0[1]
    /\ parameters[2] # x0[2]

\* the rounding of the model's arithmetic in answer: 0.01
AnswerTolerance == LinS \div 100

\* the objective's value at the current parameters with the step divided by n
AnswerAtStep(n) == calculate_KL_for_given_parameters(f, g, eps \div n, parameters).answer

\* C17: with the parameters held fixed, halving eps twice changes the
\* estimate by no more the second time than the first:
\* |KL(eps/2) - KL(eps)| >= |KL(eps/4) - KL(eps/2)|, here up to the rounding
\* of the model.
C17_HalvingChangesShrink ==
    (InObjective /\ eps % 4 = 0) =>
        LET whole == answer
            half == AnswerAtStep(2)
            quarter == AnswerAtStep(4)
            first == half.v - whole.v
            second == quarter.v - half.v
        IN  (whole.k = "fin" /\ half.k = "fin" /\ quarter.k = "fin") =>
                (IF first >= 0 THEN first ELSE -first) + AnswerTolerance
                    >= (IF second >= 0 THEN second ELSE -second)

\* C18: the grid of an objective evaluation starts at -25, steps by exactly
\* eps, stays inside [-25, +25], ends less than one step short of +25, and
\* is the same whatever the parameter vector.
C18_GridFixed ==
    InObjective =>
        /\ Len(x_val) >= 1
        /\ x_val[1] = -25 * XS
        /\ \A i \in 1..(Len(x_val) - 1) : x_val[i + 1] - x_val[i] = eps
        /\ \A i \in 1..Len(x_val) : -25 * XS <= x_val[i] /\ x_val[i] <= 25 * XS
        /\ x_val[Len(x_val)] + eps >= 25 * XS
        /\ \A x \in MinimizerPoints(1) :
            calculate_KL_for_given_parameters(f, g, eps, x).x_val = x_val

\* a step of 8, which does not divide the width 50, at a vector away from
\* the start: seven points, the last one 23
C18_Witness ==
    /\ InObjective
    /\ eps = 8 * XS
    /\ parameters = <<mean2, stddev2>>
    /\ Len(x_val) = 7
    /\ x_val[7] = 23 * XS

C20_XBeforeY ==
    gibbs_pc \in {"sample_x", "sample_y", "done"} =>
        /\ last_y_idx <= last_x_idx
        /\ last_x_idx <= last_y_idx + 1
        /\ gibbs_pc = "sample_x" => (last_x_idx = loop_i /\ last_y_idx = loop_i)
        /\ gibbs_pc = "sample_y" => (last_x_idx = loop_i + 1 /\ last_y_idx = loop_i)
        /\ gibbs_pc = "done" => (last_x_idx = num_iter /\ last_y_idx = num_iter)
        /\ \A t \in 0..(last_x_idx - 1) :
            \E xi \in StandardNormalDraws :
                x_samples[t + 1] = NormalSample(PosteriorMean(y_samples[t]), PosteriorSd, xi)
        /\ \A t \in 0..(last_y_idx - 1) :
            \E xi \in StandardNormalDraws :
                y_samples[t + 1] = NormalSample(x_samples[t + 1], sigma_obs * XS, xi)

\* the loop has ended, and its second iteration shows which values were
\* read: x_samples[2] is no draw around the mean given y_samples[0], and
\* y_samples[2] no draw around x_samples[1]
C20_Witness ==
    /\ gibbs_pc = "done"
    /\ last_x_idx = num_iter
    /\ last_y_idx = num_iter
    /\ \A xi \in StandardNormalDraws :
        /\ x_samples[2] # NormalSample(PosteriorMean(y_samples[0]), PosteriorSd, xi)
        /\ y_samples[2] # NormalSample(x_samples[1], sigma_obs * XS, xi)

\* C21: last_x_idx and last_y_idx index the sample written last: both equal
\* the number of completed iterations between iterations and num_iter at the
\* end, last_x_idx is one ahead between sample_x and sample_y, neither
\* exceeds num_iter, the arrays have num_iter + 1 entries and the entries
\* after the indices are still the zeros of np.zeros.
C21_IndicesInRange ==
    gibbs_pc # "initialize" =>
        /\ DOMAIN x_samples = 0..num_iter
        /\ DOMAIN y_samples = 0..num_iter
        /\ last_x_idx \in 0..num_iter
        /\ last_y_idx \in 0..num_iter
        /\ loop_i \in 0..num_iter
        /\ gibbs_pc = "sample_x" =>
            (loop_i < num_iter /\ last_x_idx = loop_i /\ last_y_idx = loop_i)
        /\ gibbs_pc = "sample_y" =>
            (loop_i < num_iter /\ last_x_idx = last_y_idx + 1 /\ last_y_idx = loop_i)
        /\ gibbs_pc = "done" =>
            (loop_i = num_iter /\ last_x_idx = num_iter /\ last_y_idx = num_iter)
        /\ \A i \in (last_x_idx + 1)..num_iter : x_samples[i] = 0
        /\ \A i \in (last_y_idx + 1)..num_iter : y_samples[i] = 0

\* between the two calls of the last iteration: the last entry of x_samples
\* has been written, that of y_samples not yet
C21_Witness ==
    /\ gibbs_pc = "sample_y"
    /\ loop_i = num_iter - 1
    /\ last_x_idx = num_iter
    /\ last_y_idx = num_iter - 1
    /\ x_samples[num_iter] # 0
    /\ y_samples[num_iter - 1] # 0

\* C22: a call of sample_x increments last_x_idx, writes x_samples at the new
\* index (that of the iteration plus one) and changes no other entry of
\* x_samples, nor y_samples, nor last_y_idx; likewise sample_y with x and y
\* exchanged: each entry 1..num_iter is written in one iteration only.
C22_SampleFrame ==
    [][/\ gibbs_pc = "sample_x" =>
            /\ last_x_idx' = last_x_idx + 1
            /\ last_x_idx' = loop_i + 1
            /\ DOMAIN x_samples' = DOMAIN x_samples
            /\ \A i \in DOMAIN x_samples :
                i # last_x_idx' => x_samples'[i] = x_samples[i]
            /\ y_samples' = y_samples
            /\ last_y_idx' = last_y_idx
       /\ gibbs_pc = "sample_y" =>
            /\ last_y_idx' = last_y_idx + 1
            /\ last_y_idx' = loop_i + 1
            /\ DOMAIN y_samples' = DOMAIN y_samples
            /\ \A i \in DOMAIN y_samples :
                i # last_y_idx' => y_samples'[i] = y_samples[i]
            /\ x_samples' = x_samples
            /\ last_x_idx' = last_x_idx
       /\ gibbs_pc = "done" => UNCHANGED gibbs_vars]_vars

\* the loop has ended with x_samples[0] and all entries written before the
\* last one different from zero and from their successors
C22_Witness ==
    /\ gibbs_pc = "done"
    /\ x_samples[0] # 0
    /\ y_samples[0] # 0
    /\ \A i \in 1..num_iter :
        /\ x_samples[i] \notin {0, x_samples[i - 1]}
        /\ y_samples[i] \notin {0, y_samples[i - 1]}

\* C23: every batch data_generator yields has exactly batch_size elements,
\* for every non-empty array and every batch_size >= 1, larger than the
\* array or not.
C23_BatchHasBatchSize ==
    (gen_pc = "ready" /\ nexts >= 1) => Len(batch) = batch_size

\* the generator has been created with a batch size that fits the array
FitsArray == gen_pc = "ready" /\ batch_size <= Len(array)

\* C24: with 1 <= batch_size <= n data_generator goes round the array without
\* skipping or repeating: the k-th element yielded overall is array[k mod n],
\* each batch begins where the one before ended, start stays in 0..n, a
\* further next() is always possible, and with next() called again and again
\* every element is yielded again and again.
C24_CyclicTraversal ==
    /\ [](FitsArray =>
            /\ 0 <= start
            /\ start <= Len(array)
            /\ batch = Take(array, picked)
            /\ ENABLED NextData
            /\ (1 <= nexts /\ nexts < MaxNexts) =>
                /\ picked = [j \in 1..batch_size |->
                                ((nexts - 1) * batch_size + j - 1) % Len(array)]
                /\ start % Len(array) = (nexts * batch_size) % Len(array))
    /\ [][(FitsArray /\ nexts >= 1 /\ <<start, nexts>>' # <<start, nexts>>) =>
            /\ Len(picked') = batch_size
            /\ picked'[1] = (picked[Len(picked)] + 1) % Len(array)
            /\ \A j \in 1..(Len(picked') - 1) :
                picked'[j + 1] = (picked'[j] + 1) % Len(array)]_vars
    /\ \A i \in 0..(MaxLen - 1) :
        []<>((FitsArray /\ i < Len(array)) => \E j \in 1..Len(picked) : picked[j] = i)

\* three elements in batches of two: the third batch is the second and third
\* element and leaves start at the end of the array
C24_Witness ==
    /\ FitsArray
    /\ Len(array) = 3
    /\ batch_size = 2
    /\ nexts = 3
    /\ picked = <<1, 2>>
    /\ batch = <<array[2], array[3]>>
    /\ start = 3

\* C25: data_generator and generator, given arrays of the same length and the
\* same batch_size, have the same start after the same number of next()
\* calls and took their last batches from the same indices; the batch of
\* generator is that selection, each pixel binarized.
C25_GeneratorsAgree ==
    (/\ gen_pc = "ready"
     /\ nexts = vae_nexts
     /\ nexts < MaxNexts \/ batch_size > Len(array)) =>
        /\ Len(vae_array) = Len(array)
        /\ vae_start = start
        /\ vae_picked = picked
        /\ Len(vae_batch) = Len(batch)
        /\ \A j \in 1..Len(vae_batch) :
            vae_batch[j] \in Binarized(vae_array[picked[j] + 1])

\* three calls on each of arrays of three with batches of two, the third
\* batch taken after one that wrapped around, with a pixel binarized to 0
\* and one to 1
C25_Witness ==
    /\ gen_pc = "ready"
    /\ Len(array) = 3
    /\ batch_size = 2
    /\ nexts = 3
    /\ vae_nexts = 3
    /\ picked = <<1, 2>>
    /\ vae_picked = <<1, 2>>
    /\ vae_batch = <<1, 0>>
    /\ start = 3

\* the iterations of the gradient ascent loop completed so far
CompletedIterations == step + 1

\* the lists after k completed iterations, k at most 101, and k = 101 once
\* the loop has ended
HistoryListsInStep ==
    ascent_pc \in {"loop", "done"} =>
        /\ CompletedIterations \in 0..101
        /\ Len(mu_list) = CompletedIterations + 1
        /\ Len(tau_list) = CompletedIterations + 1
        /\ Len(total_examples_seen) = CompletedIterations + 1
        /\ Len(log_likelihoods) = CompletedIterations + 1
        /\ \A k \in 0..CompletedIterations : total_examples_seen[k + 1] = k * batch_size
        /\ mu_list[Len(mu_list)] = current_mu
        /\ tau_list[Len(tau_list)] = current_tau
        /\ nexts = Min(CompletedIterations, MaxNexts)
        /\ ascent_pc = "done" => CompletedIterations = 101

\* C26: after k completed iterations of the gradient ascent loop each of the
\* four history lists has k + 1 entries, total_examples_seen[k] is
\* k * batch_size, the last entries of mu_list and tau_list are current_mu
\* and current_tau, k is at most 101, and the loop ends, after exactly
\* 101 iterations.
C26_HistoryLists ==
    /\ []HistoryListsInStep
    /\ (ascent_pc = "loop") ~> (ascent_pc = "done")

\* the loop has ended: 102 entries, batches of three, mu has moved and tau
\* has moved in the last iteration
C26_Witness ==
    /\ ascent_pc = "done"
    /\ batch_size = 3
    /\ Len(mu_list) = 102
    /\ total_examples_seen[102] = 303
    /\ \E k \in 1..102 : mu_list[k] # mu_list[1]
    /\ tau_list[102] # tau_list[101]

\* C27: every generate_plot call that is given mu_list and tau_list draws the
\* whole trace, one segment for each pair of consecutive entries
\* (mu_list[i], mu_list[i+1]), i = 0 .. len(mu_list) - 2: the calls in the
\* loop at steps 0, 25, 50, 75 and 100 and the call after the loop.
C27_WholeTracePlotted ==
    \A c \in 1..Len(plots) :
        plots[c].segments = [i \in 1..(plots[c].trace_len - 1) |-> <<i - 1, i>>]

\* tau as it was when calculate_gradient was called last
TauAtLastCall == tau_list[Len(tau_list) - 1]

=============================================================================
